---- MODULE Spec2Model ----
(***************************************************************************)
(* esbuild-hmr: the development server of src/unnamed/part_001 (lines      *)
(* 1-284, the revision with the module graph; src/server.ts is the same    *)
(* server without reverse dependencies) and the client-side message        *)
(* handler documented in src/README.md.                                    *)
(*                                                                         *)
(* Three specifications share the definitions below:                       *)
(*   SpecResolve  the pure graph code: build.onEnd's parents computation   *)
(*                and getReverseDependencies, applied to every bounded     *)
(*                metafile;                                                *)
(*   Spec         the server: first build, watcher handler, the promise    *)
(*                chain of each change event, the clients' sockets;        *)
(*   SpecClient   the page: hot-update code executed by the documented     *)
(*                message handler.                                         *)
(***************************************************************************)
EXTENDS Integers, Sequences, FiniteSets, TLC

\* ------------------------------------------------------------------ bounds

\* Import edges of an enumerated metafile (SpecResolve).
MaxEdges == 5
\* Frames the JavaScript call stack holds before RangeError is thrown.
StackLimit == 6
\* Sockets that connect, and saves of source files (each a change event).
MaxClients == 2
MaxWrites == 2
\* Change events whose updates reach the page (SpecClient).
MaxDeliveries == 3

\* ------------------------------------------------------------- module ids

\* path.resolve('./client/index.ts') stripped of ROOT: the entry point.
strippedEntryFile == "client/index.ts"

\* The .ts files under ./client, in the key order of metafile.inputs.
ModuleOrder == << "client/index.ts", "client/b.ts", "client/c.ts", "client/d.ts" >>

Modules == { ModuleOrder[i] : i \in 1..Len(ModuleOrder) }

\* ------------------------------------------------------------ sequences

SeqToSet(s) == { s[i] : i \in 1..Len(s) }

Contains(s, x) == \E i \in 1..Len(s) : s[i] = x

NoDup(s) == \A i, j \in 1..Len(s) : s[i] = s[j] => i = j

Occurrences(s, x) == Cardinality({ i \in 1..Len(s) : s[i] = x })

\* The subsets of S with at most k elements.
RECURSIVE KSubsets(_, _)
KSubsets(S, k) ==
  IF k = 0 THEN { {} }
  ELSE LET prev == KSubsets(S, k - 1)
       IN  prev \cup { p \cup {x} : p \in prev, x \in S }

\* ------------------------------------------------------------- metafile

\* An import as esbuild reports it: the resolved path and the specifier
\* written in the source.
Import(target) == [ path |-> target, original |-> << "./", target >> ]

\* esbuild's metafile for the inputs `keys` and import edges `edges`
\* (<<importer, target>>): no input has a parents field yet.
Metafile(keys, edges) ==
  [ order  |-> SelectSeq(ModuleOrder, LAMBDA m : m \in keys),
    inputs |-> [ k \in keys |->
                 [ imports |-> LET ts == SelectSeq(ModuleOrder,
                                           LAMBDA t : << k, t >> \in edges)
                               IN  [ i \in 1..Len(ts) |-> Import(ts[i]) ],
                   parents |-> << >> ] ] ]

\* The inputs esbuild bundles: the files reachable from the entry point.
RECURSIVE Reachable(_, _)
Reachable(keys, edges) ==
  LET more == keys \cup { t \in Modules : \E k \in keys : << k, t >> \in edges }
  IN  IF more = keys THEN keys ELSE Reachable(more, edges)

\* Set.prototype.add: insertion order kept, no duplicate.
SetAdd(set, x) == IF Contains(set, x) THEN set ELSE Append(set, x)

\* One import of `filename` in build.onEnd: warn and return when the target
\* is no input; otherwise add filename to the target's parents.
\* (parents is created on first add, so an empty sequence is "no parents".)
AddParentSwapped(inputs, filename, imp) ==
  IF imp.path \notin DOMAIN inputs
    THEN inputs
    ELSE [ inputs EXCEPT ![filename].parents = SetAdd(@, imp.path) ]

AddParent(inputs, filename, imp) ==
  IF imp.path \notin DOMAIN inputs
    THEN inputs
    ELSE [ inputs EXCEPT ![imp.path].parents = SetAdd(@, filename) ]

\* The imports loop giving up at the first import whose target is no input.
RECURSIVE ForEachImportStopsAtMissing(_, _, _, _)
ForEachImportStopsAtMissing(inputs, filename, imports, i) ==
  IF i > Len(imports) THEN inputs
  ELSE IF imports[i].path \notin DOMAIN inputs THEN inputs
  ELSE ForEachImportStopsAtMissing(AddParent(inputs, filename, imports[i]),
                                   filename, imports, i + 1)

RECURSIVE ForEachImport(_, _, _, _)
ForEachImport(inputs, filename, imports, i) ==
  IF i > Len(imports) THEN inputs
  ELSE ForEachImport(AddParent(inputs, filename, imports[i]),
                     filename, imports, i + 1)

RECURSIVE ForEachInput(_, _, _)
ForEachInput(inputs, order, i) ==
  IF i > Len(order) THEN inputs
  ELSE ForEachInput(
         ForEachImport(inputs, order[i], inputs[order[i]].imports, 1),
         order, i + 1)

\* build.onEnd: the metafile with every input's parents computed.
ComputeParents(metafile) ==
  [ metafile EXCEPT !.inputs = ForEachInput(metafile.inputs, metafile.order, 1) ]

\* build.onEnd's console.warn calls, in order: one for every import, of
\* every input from the i-th on, whose path is no input; each names the path.
RECURSIVE OnEndWarningsFrom(_, _)
OnEndWarningsFrom(metafile, i) ==
  IF i > Len(metafile.order) THEN << >>
  ELSE LET imports == metafile.inputs[metafile.order[i]].imports
           missing == SelectSeq(imports,
                                LAMBDA imp : imp.path \notin DOMAIN metafile.inputs)
       IN  [ k \in 1..Len(missing) |-> missing[k].path ]
             \o OnEndWarningsFrom(metafile, i + 1)

OnEndWarnings(metafile) == OnEndWarningsFrom(metafile, 1)

\* ------------------------------------------------- reverse dependencies

\* getReverseDependencies(targetModule, dependencies): for each parent, in
\* the Set's order, recurse with the parent appended. `depth` counts the
\* frames; beyond StackLimit the call throws RangeError (overflow).
RECURSIVE GetReverseDependencies(_, _, _, _)
RECURSIVE ForEachParent(_, _, _, _, _)
GetReverseDependencies(moduleMeta, targetModule, dependencies, depth) ==
  IF depth > StackLimit
    THEN [ overflow |-> TRUE, deps |-> dependencies ]
  ELSE IF targetModule \in DOMAIN moduleMeta.inputs
          /\ moduleMeta.inputs[targetModule].parents # << >>
    THEN ForEachParent(moduleMeta, moduleMeta.inputs[targetModule].parents, 1,
                       [ overflow |-> FALSE, deps |-> dependencies ], depth)
  ELSE [ overflow |-> FALSE, deps |-> dependencies ]

ForEachParent(moduleMeta, parents, i, acc, depth) ==
  IF acc.overflow \/ i > Len(parents) THEN acc
  ELSE ForEachParent(moduleMeta, parents, i + 1,
         GetReverseDependencies(moduleMeta, parents[i],
                                Append(acc.deps, parents[i]), depth + 1),
         depth)

\* The changed module followed by its direct parents only.
ReverseDependenciesParentsOnly(moduleMeta, strippedPath) ==
  [ overflow |-> FALSE,
    list     |-> << strippedPath >> \o
                 (IF strippedPath \in DOMAIN moduleMeta.inputs
                    THEN moduleMeta.inputs[strippedPath].parents
                    ELSE << >>) ]

\* const reverseDependencies = [strippedPath, ...getReverseDependencies(strippedPath)]
ReverseDependencies(moduleMeta, strippedPath) ==
  LET r == GetReverseDependencies(moduleMeta, strippedPath, << >>, 1)
  IN  [ overflow |-> r.overflow,
        list     |-> IF r.overflow THEN << >> ELSE << strippedPath >> \o r.deps ]

\* getImportPaths(modulePath): original specifier -> resolved path, {} when
\* the module has no metadata.
GetImportPaths(moduleMeta, modulePath) ==
  IF modulePath \in DOMAIN moduleMeta.inputs
    THEN { << moduleMeta.inputs[modulePath].imports[i].original,
              moduleMeta.inputs[modulePath].imports[i].path >> :
           i \in 1..Len(moduleMeta.inputs[modulePath].imports) }
    ELSE {}

\* ---------------------------------------------------------------- state

VARIABLES
  rMeta,       \* SpecResolve: the metafile handed to build.onEnd
  rPublished,  \* SpecResolve: sharedState.moduleMeta after onEnd, or Null
  rChanged,    \* SpecResolve: the changed module id ("" before the event)
  rResult,     \* SpecResolve: ReverseDependencies' result, or Null
  fsImports,   \* the import statements of the files: <<importer, target>>
  files,       \* file -> [ver, ok]: the source on disk, ok = it parses
  writes,      \* file writes so far
  sharedState, \* [_idx, context, bundle, moduleMeta, clients]
  pc,          \* the main function: "building", "serving", "failed"
  alive,       \* the node process has not been terminated
  build,       \* context.rebuild(): [loads, contents, waiters]
  events,      \* the promise chain of each change event, in delivery order
  sent,        \* client -> the messages socket.send was given, in order
  cMeta,       \* SpecClient: the module graph of the bundle the page loaded
  cIdx,        \* SpecClient: the server's counter
  cEvents,     \* SpecClient: change events delivered to the page so far
  inbox,       \* SpecClient: the messages the socket holds for the page
  hot,         \* SpecClient: module -> its HMR context's callback lists
  reloading,   \* SpecClient: window.location.reload() was called
  last         \* SpecClient: what the handler did with its last message

\* null, for the fields that hold an object.
Null == [ null |-> TRUE ]

resolveVars == << rMeta, rPublished, rChanged, rResult >>

serverVars == << fsImports, files, writes, sharedState, pc, alive, build,
                events, sent >>

clientVars == << cMeta, cIdx, cEvents, inbox, hot, reloading, last >>

vars == << rMeta, rPublished, rChanged, rResult, fsImports, files, writes,
           sharedState, pc, alive, build, events, sent, cMeta, cIdx, cEvents,
           inbox, hot, reloading, last >>

\* ------------------------------------------------------------- server

\* Sockets that may connect to /hot.
Clients == 1..MaxClients

\* What chokidar reports under ./client: a change of any source file or of
\* the host page, a file added or removed, a directory added or removed.
WatcherEvents ==
  { << "change", p >> : p \in Modules \cup { "client/index.html" } }
  \cup { << "add", "client/d.ts" >>, << "unlink", "client/d.ts" >>,
         << "addDir", "client/lib" >>, << "unlinkDir", "client/lib" >> }

\* changedFilePath.endsWith('.ts')
EndsWithTs(path) == path \in Modules

\* The projects the server is run on: a chain (index imports b, b imports
\* c; d is a file nothing imports) and an entry point that imports itself.
ChainLayout ==
  { << "client/index.ts", "client/b.ts" >>, << "client/b.ts", "client/c.ts" >> }

SelfImportLayout == { << "client/index.ts", "client/index.ts" >> }

Layouts == { ChainLayout, SelfImportLayout }

\* transformCode with the name taken from a count kept per file.
TransformCodePerFile(filename, source, runtimeModule, importPaths, idx) ==
  [ filename            |-> filename,
    ver                 |-> source.ver,
    contextVariableName |-> source.ver,
    importPaths         |-> importPaths,
    guarded             |-> runtimeModule ]

\* transformCode(path, runtimeModule, importPaths) once readFile gave
\* `source` and transform resolved: the code for `filename`, named after the
\* counter value `idx`, wrapped in try/catch when runtimeModule.
TransformCode(filename, source, runtimeModule, importPaths, idx) ==
  [ filename            |-> filename,
    ver                 |-> source.ver,
    contextVariableName |-> idx,
    importPaths         |-> importPaths,
    guarded             |-> runtimeModule ]

\* JSON.stringify({ type: 'update', body: code, id: strippedPath }); ev is
\* the change event whose chain sent it (history, not on the wire).
UpdateMessage(code, strippedPath, modulePath, e) ==
  [ type |-> "update", body |-> code, id |-> strippedPath, ev |-> e ]

\* JSON.stringify({ type: 'reload' })
ReloadMessage(e) == [ type |-> "reload", ev |-> e ]

\* sendToClients(message): socket.send for every socket of clients.
SendToClients(log, clients, message) ==
  [ c \in Clients |-> IF Contains(clients, c) THEN Append(log[c], message)
                      ELSE log[c] ]

RECURSIVE SendReloads(_, _, _, _)
SendReloads(log, clients, waiters, i) ==
  IF i > Len(waiters) THEN log
  ELSE SendReloads(
         IF waiters[i] = 0 THEN log
         ELSE SendToClients(log, clients, ReloadMessage(waiters[i])),
         clients, waiters, i + 1)

\* An exception nothing catches (an unhandled rejection, a throw out of the
\* watcher callback): node terminates the process or, by its
\* --unhandled-rejections mode, only warns.
Uncaught == alive' \in BOOLEAN

\* A build the entry point's onLoad has been called for; `waiters` are the
\* callers of rebuild(): 0 the main function, e > 0 the catch handler of
\* change event e.
StartBuild(waiters) ==
  [ loads    |-> [ f \in Modules |->
                   IF f = strippedEntryFile THEN "reading" ELSE "none" ],
    sources  |-> [ f \in Modules |-> Null ],
    contents |-> [ f \in Modules |-> Null ],
    waiters  |-> waiters ]

\* The start of a server that stores the esbuild context it creates in
\* sharedState.context.
ServerStartStoresContext(layout) ==
  /\ fsImports = layout
  /\ files = [ f \in Modules |-> [ ver |-> 1, ok |-> TRUE ] ]
  /\ writes = 0
  /\ sharedState = [ _idx |-> 0, context |-> [ rebuild |-> TRUE ], bundle |-> Null,
                     moduleMeta |-> Null, clients |-> << >> ]
  /\ pc = "building"
  /\ alive = TRUE
  /\ build = StartBuild(<< 0 >>)
  /\ events = << >>
  /\ sent = [ c \in Clients |-> << >> ]

ServerStart(layout) ==
  /\ fsImports = layout
  /\ files = [ f \in Modules |-> [ ver |-> 1, ok |-> TRUE ] ]
  /\ writes = 0
  /\ sharedState = [ _idx |-> 0, context |-> Null, bundle |-> Null,
                     moduleMeta |-> Null, clients |-> << >> ]
  /\ pc = "building"
  /\ alive = TRUE
  /\ build = StartBuild(<< 0 >>)
  /\ events = << >>
  /\ sent = [ c \in Clients |-> << >> ]

\* onLoad's transformCode(args.path): fs.readFile resolves.
BuildReadFile(f) ==
  /\ alive
  /\ build.loads[f] = "reading"
  /\ build' = [ build EXCEPT !.loads[f] = "transforming",
                             !.sources[f] = files[f] ]
  /\ UNCHANGED << fsImports, files, writes, sharedState, pc, alive, events,
                  sent >>

\* onLoad's transformCode(args.path): transform settles. On success the
\* counter advances and esbuild calls onLoad for the file's imports.
BuildOnLoad(f) ==
  /\ alive
  /\ build.loads[f] = "transforming"
  /\ IF build.sources[f].ok
       THEN /\ build' =
                 [ build EXCEPT
                     !.contents[f] = TransformCode(f, build.sources[f], FALSE,
                                                   {}, sharedState._idx),
                     !.loads = [ g \in Modules |->
                                 IF g = f THEN "loaded"
                                 ELSE IF << f, g >> \in fsImports
                                         /\ build.loads[g] = "none"
                                   THEN "reading"
                                 ELSE build.loads[g] ] ]
            /\ sharedState' = [ sharedState EXCEPT !._idx = @ + 1 ]
       ELSE /\ build' = [ build EXCEPT !.loads[f] = "failed" ]
            /\ UNCHANGED sharedState
  /\ UNCHANGED << fsImports, files, writes, pc, alive, events, sent >>

\* build.onEnd, then whoever awaited rebuild(). With an error in the build
\* result.metafile is undefined and onEnd throws before it assigns anything.
BuildOnEnd ==
  /\ alive
  /\ build.waiters # << >>
  /\ \A f \in Modules : build.loads[f] \in { "none", "loaded", "failed" }
  /\ build' = [ build EXCEPT !.waiters = << >> ]
  /\ IF \E f \in Modules : build.loads[f] = "failed"
       THEN /\ pc' = IF Contains(build.waiters, 0) THEN "failed" ELSE pc
            /\ Uncaught
            /\ UNCHANGED << sharedState, sent >>
       ELSE LET keys == { f \in Modules : build.loads[f] = "loaded" }
            IN  /\ sharedState' =
                     [ sharedState EXCEPT
                         !.bundle = [ f \in keys |-> build.contents[f] ],
                         !.moduleMeta = ComputeParents(Metafile(keys, fsImports)) ]
                /\ pc' = IF Contains(build.waiters, 0) THEN "serving" ELSE pc
                /\ sent' = SendReloads(sent, sharedState.clients, build.waiters, 1)
                /\ UNCHANGED alive
  /\ UNCHANGED << fsImports, files, writes, events >>

\* server.on('upgrade') for /hot: the socket joins sharedState.clients.
\* (Sockets are numbered in the order they connect.)
Connect(c) ==
  /\ alive
  /\ pc = "serving"
  /\ c = Len(sharedState.clients) + 1
  /\ sharedState' = [ sharedState EXCEPT !.clients = Append(@, c) ]
  /\ UNCHANGED << fsImports, files, writes, pc, alive, build, events, sent >>

\* app.get('/bundle.js'): the stored bundle with status 200, or 404 while
\* no build has stored one.
GetBundleJs ==
  IF sharedState.bundle # Null
    THEN [ status |-> 200, body |-> sharedState.bundle ]
    ELSE [ status |-> 404, body |-> Null ]

\* The chain reverseDependencies.reduce(...) builds; its first step has
\* called transformCode, that is fs.readFile, for list[1].
NewChain(strippedPath, list) ==
  [ path        |-> strippedPath,
    list        |-> list,
    pos         |-> 1,
    phase       |-> "reading",
    source      |-> Null,
    importPaths |-> GetImportPaths(sharedState.moduleMeta, list[1]),
    audience    |-> sharedState.clients,
    rebuild     |-> FALSE ]

\* The handler without its test of the event kind: any event on a .ts file
\* is taken for a change.
HandlerAnyEvent(event, changedFilePath) ==
  IF ~EndsWithTs(changedFilePath)
    THEN UNCHANGED << events, alive >>
  ELSE IF Len(sharedState.clients) = 0
    THEN UNCHANGED << events, alive >>
  ELSE LET r == ReverseDependencies(sharedState.moduleMeta, changedFilePath)
       IN  IF r.overflow
             THEN Uncaught /\ UNCHANGED events
             ELSE /\ events' = Append(events, NewChain(changedFilePath, r.list))
                  /\ UNCHANGED alive

\* The handler testing for a published graph where it should test for a
\* connected client.
HandlerTestsGraph(event, changedFilePath) ==
  IF event # "change" \/ ~EndsWithTs(changedFilePath)
    THEN UNCHANGED << events, alive >>
  ELSE IF sharedState.moduleMeta = Null
    THEN UNCHANGED << events, alive >>
  ELSE LET r == ReverseDependencies(sharedState.moduleMeta, changedFilePath)
       IN  IF r.overflow
             THEN Uncaught /\ UNCHANGED events
             ELSE /\ events' = Append(events, NewChain(changedFilePath, r.list))
                  /\ UNCHANGED alive

\* The watcher's handler, called with (event, changedFilePath).
Handler(event, changedFilePath) ==
  IF event # "change" \/ ~EndsWithTs(changedFilePath)
    THEN UNCHANGED << events, alive >>
  ELSE IF Len(sharedState.clients) = 0
    THEN UNCHANGED << events, alive >>
  ELSE LET r == ReverseDependencies(sharedState.moduleMeta, changedFilePath)
       IN  IF r.overflow
             THEN Uncaught /\ UNCHANGED events
             ELSE /\ events' = Append(events, NewChain(changedFilePath, r.list))
                  /\ UNCHANGED alive

\* chokidar reports `event` on `path` and calls the handler. A change of a
\* source file is a save of it: ok tells whether the new text parses.
Watcher(event, path, ok) ==
  /\ alive
  /\ IF event = "change" /\ path \in Modules
       THEN /\ writes < MaxWrites
            /\ writes' = writes + 1
            /\ files' = [ files EXCEPT ![path] = [ ver |-> @.ver + 1, ok |-> ok ] ]
       ELSE UNCHANGED << files, writes >>
  /\ Handler(event, path)
  /\ UNCHANGED << fsImports, sharedState, pc, build, sent >>

\* A step's transformCode: fs.readFile resolves with the file as it is now.
ReadFile(e) ==
  /\ alive
  /\ events[e].phase = "reading"
  /\ events' = [ events EXCEPT ![e].phase = "transforming",
                               ![e].source = files[events[e].list[events[e].pos]] ]
  /\ UNCHANGED << fsImports, files, writes, sharedState, pc, alive, build, sent >>

\* A resolved transform whose next step is given the alias map of the
\* changed module instead of the next module's own.
TransformResolveKeepsAliases(e) ==
  LET ev == events[e]
      modulePath == ev.list[ev.pos]
      code == TransformCode(modulePath, ev.source, TRUE, ev.importPaths,
                            sharedState._idx)
  IN  /\ alive
      /\ ev.phase = "transforming"
      /\ ev.source.ok
      /\ sharedState' = [ sharedState EXCEPT !._idx = @ + 1 ]
      /\ sent' = SendToClients(sent, sharedState.clients,
                               UpdateMessage(code, ev.path, modulePath, e))
      /\ events' =
           IF ev.pos < Len(ev.list)
             THEN [ events EXCEPT
                      ![e].pos = ev.pos + 1,
                      ![e].phase = "reading",
                      ![e].source = Null,
                      ![e].importPaths =
                         GetImportPaths(sharedState.moduleMeta, ev.path) ]
             ELSE [ events EXCEPT ![e].phase = "done", ![e].source = Null ]
      /\ UNCHANGED << fsImports, files, writes, pc, alive, build >>

\* A step's transform resolves: the counter advances, the update goes to
\* every client, and the next step of the chain calls transformCode.
TransformResolve(e) ==
  LET ev == events[e]
      modulePath == ev.list[ev.pos]
      code == TransformCode(modulePath, ev.source, TRUE, ev.importPaths,
                            sharedState._idx)
  IN  /\ alive
      /\ ev.phase = "transforming"
      /\ ev.source.ok
      /\ sharedState' = [ sharedState EXCEPT !._idx = @ + 1 ]
      /\ sent' = SendToClients(sent, sharedState.clients,
                               UpdateMessage(code, ev.path, modulePath, e))
      /\ events' =
           IF ev.pos < Len(ev.list)
             THEN [ events EXCEPT
                      ![e].pos = ev.pos + 1,
                      ![e].phase = "reading",
                      ![e].source = Null,
                      ![e].importPaths =
                         GetImportPaths(sharedState.moduleMeta, ev.list[ev.pos + 1]) ]
             ELSE [ events EXCEPT ![e].phase = "done", ![e].source = Null ]
      /\ UNCHANGED << fsImports, files, writes, pc, alive, build >>

\* A rejected transform that is logged, the chain going on with the next
\* module of the list.
TransformRejectGoesOn(e) ==
  LET ev == events[e]
  IN  /\ alive
      /\ ev.phase = "transforming"
      /\ ~ev.source.ok
      /\ events' =
           IF ev.pos < Len(ev.list)
             THEN [ events EXCEPT
                      ![e].pos = ev.pos + 1,
                      ![e].phase = "reading",
                      ![e].source = Null,
                      ![e].importPaths =
                         GetImportPaths(sharedState.moduleMeta, ev.list[ev.pos + 1]) ]
             ELSE [ events EXCEPT ![e].phase = "failed" ]
      /\ UNCHANGED << fsImports, files, writes, sharedState, pc, alive, build, sent >>

\* A step's transform rejects: the chain's catch handler logs the error and
\* calls sharedState.context.rebuild(), which throws when context is null.
TransformReject(e) ==
  LET ev == events[e]
  IN  /\ alive
      /\ ev.phase = "transforming"
      /\ ~ev.source.ok
      /\ IF sharedState.context = Null
           THEN /\ events' = [ events EXCEPT ![e].phase = "failed" ]
                /\ Uncaught
                /\ UNCHANGED build
           ELSE /\ events' = [ events EXCEPT ![e].phase = "failed",
                                             ![e].rebuild = TRUE ]
                /\ build' = IF build.waiters = << >>
                              THEN StartBuild(<< e >>)
                              ELSE [ build EXCEPT !.waiters = Append(@, e) ]
                /\ UNCHANGED alive
      /\ UNCHANGED << fsImports, files, writes, sharedState, pc, sent >>

ServerInit == \E layout \in Layouts : ServerStart(layout)

ResolveIdle == UNCHANGED resolveVars /\ UNCHANGED clientVars

\* No page is modelled.
ClientIdle ==
  /\ cMeta = Null
  /\ cIdx = 0
  /\ cEvents = 0
  /\ inbox = << >>
  /\ hot = << >>
  /\ reloading = FALSE
  /\ last = Null

Next ==
  \/ \E f \in Modules : BuildReadFile(f) /\ ResolveIdle
  \/ \E f \in Modules : BuildOnLoad(f) /\ ResolveIdle
  \/ BuildOnEnd /\ ResolveIdle
  \/ \E c \in Clients : Connect(c) /\ ResolveIdle
  \/ \E w \in WatcherEvents :
       \E ok \in IF w[1] = "change" /\ w[2] \in Modules THEN BOOLEAN ELSE { TRUE } :
          Watcher(w[1], w[2], ok) /\ ResolveIdle
  \/ \E e \in 1..Len(events) : ReadFile(e) /\ ResolveIdle
  \/ \E e \in 1..Len(events) : TransformResolve(e) /\ ResolveIdle
  \/ \E e \in 1..Len(events) : TransformReject(e) /\ ResolveIdle

Init ==
  /\ ServerInit
  /\ ClientIdle
  /\ rMeta = Null
  /\ rPublished = Null
  /\ rChanged = ""
  /\ rResult = Null

Spec == Init /\ [][Next]_vars

\* ---------------------------------------------------------- SpecResolve

\* Every metafile esbuild can hand to onEnd for sources with the import
\* statements `edges`, the modules of `external` being imports it leaves
\* out of the bundle: the inputs are the files it reaches from the entry
\* point, and an import of an external module names a path that is no input.
Metafiles ==
  { Metafile(Reachable({ strippedEntryFile },
                       { e \in edges : e[2] \notin external }), edges) :
      edges \in KSubsets(Modules \X Modules, MaxEdges),
      external \in SUBSET (Modules \ { strippedEntryFile }) }

ResolveInit ==
  /\ rMeta \in Metafiles
  /\ rPublished = Null
  /\ rChanged = ""
  /\ rResult = Null
  /\ ServerStart({})
  /\ ClientIdle

\* build.onEnd on rMeta.
ResolveOnEnd ==
  /\ rPublished = Null
  /\ rPublished' = ComputeParents(rMeta)
  /\ UNCHANGED << rMeta, rChanged, rResult >>
  /\ UNCHANGED << serverVars, clientVars >>

\* The resolution of a change event on `path`.
ResolveChange(path) ==
  /\ rPublished # Null
  /\ rChanged = ""
  /\ rChanged' = path
  /\ rResult' = ReverseDependencies(rPublished, path)
  /\ UNCHANGED << rMeta, rPublished >>
  /\ UNCHANGED << serverVars, clientVars >>

ResolveNext ==
  \/ ResolveOnEnd
  \/ \E path \in Modules : ResolveChange(path)

SpecResolve == ResolveInit /\ [][ResolveNext]_vars

\* ------------------------------------------------------------- the page

\* context.accept(callback) / context.dispose(callback) of the code named
\* __hmr<n> for `filename`: the callback it appends.
Callback(code) == [ filename |-> code.filename, by |-> code.contextVariableName ]

\* window.__hot.register(id): the module's context with its accept and
\* dispose lists emptied (created when it is the first registration).
Register(contexts, id) ==
  [ contexts EXCEPT ![id] = [ acceptCallbacks |-> << >>, disposeCallbacks |-> << >> ] ]

\* Running the text transformCode returned: register, the module body (which
\* throws when `raises`), then the accept and dispose registrations; all of
\* it inside try/catch with alert and window.location.reload() when the
\* code is a hot update. threw: the error left the code; reload: the code
\* called reload itself.
RunCode(contexts, code, raises) ==
  LET registered == Register(contexts, code.filename)
      completed ==
        [ registered EXCEPT
            ![code.filename].acceptCallbacks = Append(@, Callback(code)),
            ![code.filename].disposeCallbacks = Append(@, Callback(code)) ]
  IN  IF ~raises
        THEN [ contexts |-> completed, threw |-> FALSE, reload |-> FALSE ]
      ELSE IF code.guarded
        THEN [ contexts |-> registered, threw |-> FALSE, reload |-> TRUE ]
      ELSE [ contexts |-> registered, threw |-> TRUE, reload |-> FALSE ]

\* The messages one change event on strippedPath sends when every transform
\* succeeds, the counter being idx before it.
EventUpdates(moduleMeta, strippedPath, idx, e) ==
  LET list == ReverseDependencies(moduleMeta, strippedPath).list
  IN  [ i \in 1..Len(list) |->
        UpdateMessage(
          TransformCode(list[i], [ ver |-> e + 1, ok |-> TRUE ], TRUE,
                        GetImportPaths(moduleMeta, list[i]), idx + i - 1),
          strippedPath, list[i], e) ]

\* The page has loaded the bundle of the chain project: every bundled module
\* has run once and registered its callbacks.
ClientInit ==
  LET keys == Reachable({ strippedEntryFile }, ChainLayout)
      meta == ComputeParents(Metafile(keys, ChainLayout))
      n(f) == CHOOSE i \in 1..Len(meta.order) : meta.order[i] = f
      code(f) == TransformCode(f, [ ver |-> 1, ok |-> TRUE ], FALSE, {}, n(f) - 1)
  IN  /\ cMeta = meta
      /\ cIdx = Cardinality(keys)
      /\ cEvents = 0
      /\ inbox = << >>
      /\ hot = [ f \in Modules |->
                 IF f \in keys
                   THEN [ acceptCallbacks |-> << Callback(code(f)) >>,
                          disposeCallbacks |-> << Callback(code(f)) >> ]
                   ELSE [ acceptCallbacks |-> << >>, disposeCallbacks |-> << >> ] ]
      /\ reloading = FALSE
      /\ last = Null

\* The server handles a change event on `path` and the socket delivers its
\* updates.
Deliver(path) ==
  /\ ~reloading
  /\ inbox = << >>
  /\ cEvents < MaxDeliveries
  /\ cEvents' = cEvents + 1
  /\ inbox' = EventUpdates(cMeta, path, cIdx, cEvents + 1)
  /\ cIdx' = cIdx + Len(inbox')
  /\ UNCHANGED << cMeta, hot, reloading, last >>

\* The page's message handler on the first message of the socket: the
\* dispose callbacks of the named module, then in try/catch the eval of the
\* body and the accept callbacks; any error caught there reloads the page.
\* `raises`: the module body throws when it runs.
OnMessage(raises) ==
  LET payload == Head(inbox)
      disposed == hot[payload.id].disposeCallbacks
      ran == RunCode(hot, payload.body, raises)
  IN  /\ ~reloading
      /\ inbox # << >>
      /\ inbox' = Tail(inbox)
      /\ IF payload.type = "reload"
           THEN /\ reloading' = TRUE
                /\ last' = [ id |-> "", raised |-> FALSE, continued |-> FALSE,
                             disposed |-> << >>, accepted |-> << >> ]
                /\ UNCHANGED hot
           ELSE /\ hot' = ran.contexts
                /\ reloading' = (ran.threw \/ ran.reload)
                /\ last' = [ id        |-> payload.id,
                             raised    |-> raises,
                             continued |-> ~ran.threw,
                             disposed  |-> disposed,
                             accepted  |-> IF ran.threw THEN << >>
                                           ELSE ran.contexts[payload.id].acceptCallbacks ]
      /\ UNCHANGED << cMeta, cIdx, cEvents >>

ClientNext ==
  \/ \E path \in Modules : Deliver(path) /\ UNCHANGED << resolveVars, serverVars >>
  \/ \E raises \in BOOLEAN : OnMessage(raises) /\ UNCHANGED << resolveVars, serverVars >>

SpecClientInit ==
  /\ ClientInit
  /\ ServerStart(ChainLayout)
  /\ rMeta = Null
  /\ rPublished = Null
  /\ rChanged = ""
  /\ rResult = Null

SpecClient == SpecClientInit /\ [][ClientNext]_vars

\* ------------------------------------------------------ claims: the graph

\* A imports B, by A's imports in the graph.
Imports(moduleMeta, a, b) ==
  \E i \in 1..Len(moduleMeta.inputs[a].imports) :
     moduleMeta.inputs[a].imports[i].path = b

\* C1: the list of a change event on X (X, then getReverseDependencies(X))
\* holds X exactly once, at index 0, and no id more than once.
C1_ListHasNoDuplicates ==
  (rChanged # "" /\ ~rResult.overflow) =>
     /\ rResult.list[1] = rChanged
     /\ Occurrences(rResult.list, rChanged) = 1
     /\ NoDup(rResult.list)

\* C2: the resolution of a change event terminates on every finite graph,
\* cyclic ones included: it never exhausts the call stack.
C2_ResolutionTerminates ==
  rChanged # "" => ~rResult.overflow

\* C3: in a published graph, B.parents holds A for every A importing an
\* input B, and holds only inputs that import B.
C3_ParentsMatchImports ==
  rPublished # Null =>
    \A b \in DOMAIN rPublished.inputs :
      /\ \A a \in DOMAIN rPublished.inputs :
            Imports(rPublished, a, b) <=> Contains(rPublished.inputs[b].parents, a)
      /\ SeqToSet(rPublished.inputs[b].parents) \subseteq DOMAIN rPublished.inputs
      /\ NoDup(rPublished.inputs[b].parents)

\* C3's case: a published graph where an input has two parents and some
\* input imports a path that is no input.
C3_Witness ==
  /\ rPublished # Null
  /\ \E b \in DOMAIN rPublished.inputs : Len(rPublished.inputs[b].parents) = 2
  /\ \E a \in DOMAIN rPublished.inputs :
       \E i \in 1..Len(rPublished.inputs[a].imports) :
          rPublished.inputs[a].imports[i].path \notin DOMAIN rPublished.inputs

\* ----------------------------------------------------- claims: the server

\* The messages of change event e that client c was sent, in order.
EventMessages(c, e) == SelectSeq(sent[c], LAMBDA m : m.ev = e)

Updates(c, e) == SelectSeq(sent[c], LAMBDA m : m.ev = e /\ m.type = "update")

Reloads(c, e) == SelectSeq(sent[c], LAMBDA m : m.ev = e /\ m.type = "reload")

\* The chain of e has settled and nothing it started is still running.
Finished(e) ==
  /\ events[e].phase \in { "done", "failed" }
  /\ ~Contains(build.waiters, e)

\* C4: when a transform of a change event fails, each client connected at
\* the event is sent no update and exactly one reload for it.
C4_FailureSendsOnlyOneReload ==
  \A e \in 1..Len(events) :
    (Finished(e) /\ events[e].phase = "failed") =>
      \A c \in SeqToSet(events[e].audience) :
        Len(Updates(c, e)) = 0 /\ Len(Reloads(c, e)) = 1

\* C5: when every transform of a change event succeeds, each client is sent
\* one update per entry of the list, in list order, the i-th with the i-th
\* module id as `id` and that module's code as `body`.
C5_UpdatesCarryTheirModuleId ==
  \A e \in 1..Len(events) :
    events[e].phase = "done" =>
      \A c \in SeqToSet(events[e].audience) :
        /\ Len(EventMessages(c, e)) = Len(events[e].list)
        /\ \A i \in 1..Len(events[e].list) :
             /\ EventMessages(c, e)[i].type = "update"
             /\ EventMessages(c, e)[i].id = events[e].list[i]
             /\ EventMessages(c, e)[i].body.filename = events[e].list[i]

\* C6: when a transform step of a change event fails, the catch handler
\* starts a rebuild through the stored context, and once the rebuild is over
\* the reload has been sent.
C6_FailureStartsRebuild ==
  \A e \in 1..Len(events) :
    events[e].phase = "failed" =>
      /\ events[e].rebuild
      /\ Finished(e) => \A c \in SeqToSet(events[e].audience) :
                           Len(Reloads(c, e)) >= 1

\* C7: change events are processed one at a time: a later event completes
\* no step (no read, no transform, no send) while an earlier one is
\* unfinished.
C7_EventsAreSerialized ==
  \A e1, e2 \in 1..Len(events) :
    (e1 < e2 /\ (events[e2].pos > 1 \/ events[e2].phase # "reading")) =>
      Finished(e1)

\* C8: no client is sent an update of a module built from an older source
\* after an update of that module built from a newer source.
C8_NoStaleUpdateAfterFresher ==
  \A c \in Clients :
    \A i, j \in 1..Len(sent[c]) :
      ( /\ i < j
        /\ sent[c][i].type = "update" /\ sent[c][j].type = "update"
        /\ sent[c][i].id = sent[c][j].id
        /\ sent[c][i].body.filename = sent[c][j].body.filename ) =>
        sent[c][i].body.ver <= sent[c][j].body.ver

\* C9: no client is sent an update whose id is no key of the module graph.
C9_UpdatesOnlyForGraphModules ==
  \A c \in Clients :
    \A i \in 1..Len(sent[c]) :
      sent[c][i].type = "update" =>
        sent[c][i].id \in DOMAIN sharedState.moduleMeta.inputs

\* ------------------------------------------------------- claims: the page

\* C10: when the code of an update raises while it runs on the page, the
\* page reloads, no accept callback is invoked for that update, and the
\* handler does not go on past the failing eval.
C10_FailureOnlyReloads ==
  (last # Null /\ last.raised) =>
    /\ reloading
    /\ ~last.continued
    /\ last.accepted = << >>

\* C11: every update that re-executes a module M on the page invokes the
\* dispose callbacks M's previous version registered, in registration
\* order, before the new code runs, and afterwards the accept callbacks the
\* new code of M registered; for the changed module and for each ancestor.
C11_CallbacksOfTheExecutedModule ==
  [][ ( /\ inbox # << >>
        /\ inbox' = Tail(inbox)
        /\ Head(inbox).type = "update"
        /\ ~last'.raised )
      => LET M == Head(inbox).body.filename
         IN  /\ last'.disposed = hot[M].disposeCallbacks
             /\ last'.accepted = hot'[M].acceptCallbacks
             /\ last'.accepted = << Callback(Head(inbox).body) >> ]_vars

\* --------------------------------------------- claims: the server, part 2

\* C12: once a change event on a tracked module has been processed
\* successfully, GET /bundle.js answers with a bundle that holds the
\* changed module built from a source at least as new as the one the
\* event's update was built from.
C12_BundleIncludesProcessedChange ==
  \A e \in 1..Len(events) :
    ( /\ events[e].phase = "done"
      /\ events[e].path \in DOMAIN sharedState.moduleMeta.inputs ) =>
      /\ GetBundleJs.status = 200
      /\ events[e].path \in DOMAIN GetBundleJs.body
      /\ \A c \in Clients :
           \A i \in 1..Len(Updates(c, e)) :
             Updates(c, e)[i].body.filename = events[e].path =>
               GetBundleJs.body[events[e].path].ver >= Updates(c, e)[i].body.ver

\* The update messages client c was sent, in order.
UpdatesSent(c) == SelectSeq(sent[c], LAMBDA m : m.type = "update")

\* Every transformCode result at hand carries a name of its own: the loads
\* of a build among themselves, the modules of the bundle among themselves,
\* the updates one client was sent among themselves, and no update shares
\* its name with a load or with a module of the bundle.
NamesAreUnique ==
  LET loaded == { f \in Modules : build.contents[f] # Null }
      bundled == IF sharedState.bundle = Null THEN {} ELSE DOMAIN sharedState.bundle
  IN  /\ \A f, g \in loaded :
           build.contents[f].contextVariableName =
             build.contents[g].contextVariableName => f = g
      /\ \A f, g \in bundled :
           sharedState.bundle[f].contextVariableName =
             sharedState.bundle[g].contextVariableName => f = g
      /\ \A c \in Clients :
           /\ \A i, j \in 1..Len(UpdatesSent(c)) :
                UpdatesSent(c)[i].body.contextVariableName =
                  UpdatesSent(c)[j].body.contextVariableName => i = j
           /\ \A i \in 1..Len(UpdatesSent(c)) :
                /\ \A f \in loaded :
                     UpdatesSent(c)[i].body.contextVariableName #
                       build.contents[f].contextVariableName
                /\ \A f \in bundled :
                     UpdatesSent(c)[i].body.contextVariableName #
                       sharedState.bundle[f].contextVariableName
      /\ \A f \in loaded : build.contents[f].contextVariableName < sharedState._idx
      /\ \A c \in Clients : \A i \in 1..Len(UpdatesSent(c)) :
           UpdatesSent(c)[i].body.contextVariableName < sharedState._idx

\* A step leaves the counter alone or adds one to it, and adds one whenever
\* a transformCode call completes in it (a load of a build, a step of a
\* change event's chain), the result being named after the old value.
CounterStep ==
  /\ sharedState'._idx \in { sharedState._idx, sharedState._idx + 1 }
  /\ \A f \in Modules :
       (build.loads[f] = "transforming" /\ build'.loads[f] = "loaded") =>
         /\ sharedState'._idx = sharedState._idx + 1
         /\ build'.contents[f].contextVariableName = sharedState._idx
  /\ \A e \in 1..Len(events) :
       ( /\ events[e].phase = "transforming"
         /\ events'[e].phase \in { "reading", "done" } ) =>
         /\ sharedState'._idx = sharedState._idx + 1
         /\ \A c \in SeqToSet(sharedState.clients) :
              /\ Len(sent'[c]) = Len(sent[c]) + 1
              /\ sent'[c][Len(sent'[c])].body.contextVariableName = sharedState._idx

\* C13: sharedState._idx grows by exactly one with every completed
\* transformCode call and never decreases or resets, and no two results
\* (loads of a build, updates of change events, however their steps
\* interleave) carry the same __hmr<n> name.
C13_NamesUniqueCounterMonotonic ==
  []NamesAreUnique /\ [][CounterStep]_vars

\* C13's case: after the first build, two change events are in flight at
\* once and each has completed a transform.
C13_Witness ==
  /\ Len(events) = 2
  /\ events[1].pos = 2 /\ events[1].phase = "transforming"
  /\ events[2].pos = 2 /\ events[2].phase = "reading"
  /\ sharedState._idx = 5
  /\ Len(UpdatesSent(1)) = 2

\* ---------------------------------------------- claims: the graph, part 2

\* The modules reached from the set `found` by following parents edges.
RECURSIVE Ancestors(_, _)
Ancestors(moduleMeta, found) ==
  LET more == found \cup
        { a \in DOMAIN moduleMeta.inputs :
            \E m \in found \cap DOMAIN moduleMeta.inputs :
               Contains(moduleMeta.inputs[m].parents, a) }
  IN  IF more = found THEN found ELSE Ancestors(moduleMeta, more)

\* No module is its own ancestor.
Acyclic(moduleMeta) ==
  \A m \in DOMAIN moduleMeta.inputs :
    m \notin Ancestors(moduleMeta, SeqToSet(moduleMeta.inputs[m].parents))

\* C14: on an acyclic graph the ids of the list of a change event on X are
\* X and exactly the modules reachable from X over parents edges.
C14_ListIsTheAncestorSet ==
  (rChanged # "" /\ Acyclic(rPublished)) =>
     /\ ~rResult.overflow
     /\ SeqToSet(rResult.list) = Ancestors(rPublished, { rChanged })

\* C14's case: an acyclic graph where X has an ancestor that is no parent of
\* it and some input is no ancestor of X.
C14_Witness ==
  /\ rChanged # ""
  /\ Acyclic(rPublished)
  /\ rChanged \in DOMAIN rPublished.inputs
  /\ \E a \in Ancestors(rPublished, { rChanged }) :
       a # rChanged /\ ~Contains(rPublished.inputs[rChanged].parents, a)
  /\ \E m \in DOMAIN rPublished.inputs : m \notin Ancestors(rPublished, { rChanged })

\* The position of the first occurrence of m in the list.
FirstIndex(list, m) == CHOOSE i \in 1..Len(list) :
                         list[i] = m /\ \A j \in 1..(i - 1) : list[j] # m

\* C15: the list of a change event is in dependency order: the changed
\* module comes first, and an affected module first occurs after the first
\* occurrence of every affected module it imports.
C15_ListInDependencyOrder ==
  (rChanged # "" /\ Acyclic(rPublished) /\ ~rResult.overflow) =>
     /\ rResult.list[1] = rChanged
     /\ \A m, n \in SeqToSet(rResult.list) \cap DOMAIN rPublished.inputs :
          Imports(rPublished, m, n) =>
            FirstIndex(rResult.list, n) < FirstIndex(rResult.list, m)

\* --------------------------------------------- claims: the server, part 3

\* The transform of change event e at its position has been given a source
\* that does not parse, or has rejected.
TransformFails(e) ==
  \/ events[e].phase = "transforming" /\ ~events[e].source.ok
  \/ events[e].phase = "failed"

\* C16: once the transform at position i of a change event's list fails,
\* the chain stays at i for good: no later module is read or transformed
\* and no client is sent a further update of the event.
C16_FailureAbortsTheChain ==
  [][ \A e \in 1..Len(events) :
        TransformFails(e) =>
          /\ events'[e].phase \in { events[e].phase, "failed" }
          /\ events'[e].pos = events[e].pos
          /\ \A c \in Clients : Updates(c, e)' = Updates(c, e) ]_vars

\* C16's case: a chain of three modules has failed at its second, after the
\* update of its first was sent.
C16_Witness ==
  \E e \in 1..Len(events) :
    /\ events[e].phase = "failed"
    /\ Len(events[e].list) = 3
    /\ events[e].pos = 2
    /\ Len(Updates(1, e)) = 1

\* ---------------------------------------------- claims: the graph, part 3

\* C17: build.onEnd publishes a graph whatever imports name paths that are
\* no input: every input keeps its imports as the metafile gave them, a
\* missing target gets no entry in the graph and is named by a warning, and
\* every import whose target is an input, also one that follows a missing
\* import of the same module, has the importer among the target's parents.
C17_MissingImportTargetTolerated ==
  rPublished # Null =>
    /\ DOMAIN rPublished.inputs = DOMAIN rMeta.inputs
    /\ \A a \in DOMAIN rMeta.inputs :
         /\ rPublished.inputs[a].imports = rMeta.inputs[a].imports
         /\ \A i \in 1..Len(rMeta.inputs[a].imports) :
              LET target == rMeta.inputs[a].imports[i].path
              IN  IF target \in DOMAIN rMeta.inputs
                    THEN Contains(rPublished.inputs[target].parents, a)
                    ELSE Contains(OnEndWarnings(rMeta), target)
    /\ Len(OnEndWarnings(rMeta)) =
         Cardinality({ << a, i >> \in (DOMAIN rMeta.inputs) \X (1..Len(ModuleOrder)) :
                         /\ i <= Len(rMeta.inputs[a].imports)
                         /\ rMeta.inputs[a].imports[i].path \notin DOMAIN rMeta.inputs })

\* C17's case: a published graph where an input imports a path that is no
\* input and, later in its imports, an input.
C17_Witness ==
  /\ rPublished # Null
  /\ \E a \in DOMAIN rMeta.inputs :
       \E i, j \in 1..Len(rMeta.inputs[a].imports) :
          /\ i < j
          /\ rMeta.inputs[a].imports[i].path \notin DOMAIN rMeta.inputs
          /\ rMeta.inputs[a].imports[j].path \in DOMAIN rMeta.inputs
          /\ Contains(rPublished.inputs[rMeta.inputs[a].imports[j].path].parents, a)

\* --------------------------------------------- claims: the server, part 4

\* The alias map of module f by its own import statements: the specifier
\* as written mapped to the resolved id; empty when f is no key of the graph.
OwnAliases(f) ==
  IF f \in DOMAIN sharedState.moduleMeta.inputs
    THEN { << Import(t).original, t >> : t \in { u \in Modules : << f, u >> \in fsImports } }
    ELSE {}

\* C18: a change event on an id that is no key of the graph has the list
\* [id] and transforms it with an empty alias map; and every module of every
\* list is transformed with the alias map of its own imports.
C18_AliasMapOfTheTransformedModule ==
  /\ \A e \in 1..Len(events) :
       /\ events[e].path \notin DOMAIN sharedState.moduleMeta.inputs =>
            /\ events[e].list = << events[e].path >>
            /\ events[e].importPaths = {}
       /\ events[e].phase \in { "reading", "transforming" } =>
            events[e].importPaths = OwnAliases(events[e].list[events[e].pos])
  /\ \A c \in Clients :
       \A i \in 1..Len(UpdatesSent(c)) :
         UpdatesSent(c)[i].body.importPaths =
           OwnAliases(UpdatesSent(c)[i].body.filename)

\* C18's case: a change event on a file that is no key of the graph has
\* been processed, and so has one on a module that imports, whose parent
\* imports something else.
C18_Witness ==
  \E e1, e2 \in 1..Len(events) :
    /\ events[e1].path \notin DOMAIN sharedState.moduleMeta.inputs
    /\ events[e1].phase = "done"
    /\ Len(Updates(1, e1)) = 1
    /\ events[e2].phase = "done"
    /\ Len(Updates(1, e2)) = 2
    /\ OwnAliases(events[e2].path) # {}
    /\ Updates(1, e2)[2].body.importPaths # OwnAliases(events[e2].path)
    /\ Updates(1, e2)[2].body.importPaths # {}

\* C19: a watcher event that is no change (add, unlink, addDir, unlinkDir),
\* or a change of a file that is no .ts source, starts no chain and no
\* build, sends nothing, and leaves the graph, the bundle, the client list
\* and the counter (all of sharedState) as they were.
C19_OtherEventsChangeNothing ==
  [][ \A w \in WatcherEvents :
        ( /\ w[1] # "change" \/ w[2] \notin Modules
          /\ Watcher(w[1], w[2], TRUE) )
        => UNCHANGED << sharedState, events, sent, build, pc, alive >> ]_vars

\* C19's case: the watcher may report while a client is connected and the
\* chain of a change event is in flight.
C19_Witness ==
  /\ alive
  /\ pc = "serving"
  /\ Len(sharedState.clients) = MaxClients
  /\ \E e \in 1..Len(events) : events[e].phase = "transforming" /\ events[e].pos = 2

\* The chain of change event e has steps left to run.
InProgress(e) == events[e].phase \in { "reading", "transforming" }

\* While a change event is in progress no build runs, and its list and the
\* alias map of its current step are those the published graph gives.
NoBuildDuringEvent ==
  \A e \in 1..Len(events) :
    InProgress(e) =>
      /\ build.waiters = << >>
      /\ events[e].list =
           ReverseDependencies(sharedState.moduleMeta, events[e].path).list
      /\ events[e].importPaths =
           GetImportPaths(sharedState.moduleMeta, events[e].list[events[e].pos])

\* C20: no full rebuild runs while a change event is being processed: from
\* the resolution of its list to its last step the published graph is not
\* replaced, so the list and every alias map of the event come from one
\* graph version.
C20_NoRebuildDuringEvent ==
  /\ []NoBuildDuringEvent
  /\ [][ (\E e \in 1..Len(events) : InProgress(e)) =>
           sharedState'.moduleMeta = sharedState.moduleMeta ]_vars

\* C20's case: a change event is at the second module of its list while the
\* transform of another event has failed.
C20_Witness ==
  /\ alive
  /\ Len(events) = 2
  /\ events[1].phase = "failed"
  /\ InProgress(2)
  /\ events[2].pos = 2

\* Every message a client was sent belongs to a change event that was
\* taken up, and that event found a client connected.
MessagesOnlyOfEventsWithClients ==
  \A c \in Clients :
    \A i \in 1..Len(sent[c]) :
      /\ sent[c][i].ev \in 1..Len(events)
      /\ events[sent[c][i].ev].audience # << >>

\* C21: a save of a .ts file reported while no client is connected is
\* dropped: no chain starts (no transform, the counter stays), no build
\* starts even when the new text does not parse, the graph and the bundle
\* stay, nothing is sent; and no client, also one that connects later, is
\* ever sent a message of an event that found no client.
C21_ChangeWithoutClientIsDropped ==
  /\ [][ (writes' = writes + 1 /\ Len(sharedState.clients) = 0) =>
           UNCHANGED << sharedState, events, sent, build, pc, alive >> ]_vars
  /\ []MessagesOnlyOfEventsWithClients

\* C21's case: the server is serving, a .ts file was saved with a syntax
\* error while no client was connected, and a client has connected since.
C21_Witness ==
  /\ alive
  /\ pc = "serving"
  /\ writes = 1
  /\ \E f \in Modules : files[f].ver = 2 /\ ~files[f].ok
  /\ events = << >>
  /\ Len(sharedState.clients) = 1
  /\ sent[1] = << >>

====
